---- MODULE Spec2Model ----
(***************************************************************************)
(* A model of go-monk/katas: the mastery scoring function (mastery.go),    *)
(* its renderer Mastery.String, and the record store of main.go            *)
(* (markDone, print, initConfig) that feeds it.                            *)
(*                                                                         *)
(* Time is counted in whole hours since Go's zero time.Time,               *)
(* 0001-01-01 00:00 UTC; the zero time.Time itself is hour 0.  A date text *)
(* "YYYY-MM-DD" is modelled by its three fixed-width decimal fields, a     *)
(* record [y, m, d]; a text time.Parse rejects is one with a field out of  *)
(* range ("2024-13-01", "2023-02-29").                                     *)
(***************************************************************************)
EXTENDS Integers, Sequences, FiniteSets

VARIABLES
    \* ---- the scoring function's harness (SpecMastery) ----
    timesDone,   \* mastery's first argument
    lastDone,    \* mastery's second argument, hours since the zero time
    now,         \* the wall clock time.Since reads, hours since the zero time
    level,       \* the Mastery the last call returned, or NoLevel
    prev,        \* the Mastery the call before the last returned, or NoLevel
    moved,       \* which input changed between those two calls
    sinceRead,   \* whether the last call evaluated time.Since
    rendered,    \* the last Mastery.String call: [level, text]
    \* ---- the record store (Spec) ----
    file,        \* the content of ~/.katas.yaml: NoFile or a sequence of katas
    clock,       \* the wall clock, hours since the zero time (UTC)
    tz,          \* the offset of the local time zone from UTC, in hours
    cmd,         \* the last command line run: [op, name]
    err,         \* the error that run ended with, or "nil"
    out,         \* what that run's print wrote: [rows, total] or NoOutput
    saves        \* how many times save() has written the file

mvars == <<timesDone, lastDone, now, level, prev, moved, sinceRead, rendered>>
svars == <<file, clock, tz, cmd, err, out, saves>>
vars  == <<timesDone, lastDone, now, level, prev, moved, sinceRead, rendered,
           file, clock, tz, cmd, err, out, saves>>

(***************************************************************************)
(* Bounds of the model.                                                    *)
(***************************************************************************)
\* the largest completion count the harness draws
MaxTimesDone == 16
\* how many hours before lastDone the harness clock may start
MaxAheadHours == 120
\* how many hours after lastDone the harness clock may run
MaxElapsedHours == 400
\* the levels handed to Mastery.String range over -MaxForeign .. 5 + MaxForeign
MaxForeign == 2

(***************************************************************************)
(* The calendar of package time, as time.Parse and Time.Format use it: the *)
(* proleptic Gregorian calendar, days counted from 0001-01-01.             *)
(***************************************************************************)
isLeap(y) == (y % 4 = 0) /\ ((y % 100 # 0) \/ (y % 400 = 0))

daysIn(m, y) ==
    IF m = 2 THEN (IF isLeap(y) THEN 29 ELSE 28)
    ELSE IF m \in {4, 6, 9, 11} THEN 30 ELSE 31

\* time.Date(y, m, d, 0, 0, 0, 0, time.UTC), in days since the zero time
daysSinceZero(y, m, d) ==
    LET yy  == IF m <= 2 THEN y - 1 ELSE y
        era == yy \div 400
        yoe == yy - era * 400
        mp  == IF m > 2 THEN m - 3 ELSE m + 9
        doy == (153 * mp + 2) \div 5 + d - 1
        doe == yoe * 365 + yoe \div 4 - yoe \div 100 + doy
    IN  era * 146097 + doe - 306

\* the year, month and day of the day `z` days after the zero time
civil(z) ==
    LET zz  == z + 306
        era == zz \div 146097
        doe == zz - era * 146097
        yoe == (doe - doe \div 1460 + doe \div 36524 - doe \div 146096) \div 365
        doy == doe - (365 * yoe + yoe \div 4 - yoe \div 100)
        mp  == (5 * doy + 2) \div 153
        dd  == doy - (153 * mp + 2) \div 5 + 1
        mm  == IF mp < 10 THEN mp + 3 ELSE mp - 9
    IN  [y |-> (IF mm <= 2 THEN yoe + era * 400 + 1 ELSE yoe + era * 400),
         m |-> mm, d |-> dd]

\* time.Parse("2006-01-02", s): whether it returns a nil error
parseOk(s) ==
    /\ s.m \in 1..12
    /\ s.d \in 1..daysIn(s.m, s.y)

\* time.Parse("2006-01-02", s): the time returned, midnight UTC of that date
parse(s) == 24 * daysSinceZero(s.y, s.m, s.d)

\* time.Now().Format("2006-01-02"): the local date of the instant `t`
format(t, zone) == civil((t + zone) \div 24)

(***************************************************************************)
(* mastery.go                                                              *)
(***************************************************************************)
ZeroTime == 0

\* the largest time.Duration (2^63 - 1 ns), in whole hours
MaxDurationHours == 2562047

\* Go's conversion int(f) of a float64 quotient a / b, b > 0: toward zero
truncDiv(a, b) == IF a >= 0 THEN a \div b ELSE -((-a) \div b)

\* sinceHours with the operands of Time.Sub exchanged
sinceHoursSwapped(t, n) ==
    LET d == t - n
    IN  IF d > MaxDurationHours THEN MaxDurationHours
        ELSE IF d < -MaxDurationHours THEN -MaxDurationHours ELSE d

\* time.Since(t).Hours() read at clock `n`: Time.Sub saturates
sinceHours(t, n) ==
    LET d == n - t
    IN  IF d > MaxDurationHours THEN MaxDurationHours
        ELSE IF d < -MaxDurationHours THEN -MaxDurationHours ELSE d

\* daysAgoOf rounding to the nearest day instead of truncating
daysAgoRounded(t, n) == truncDiv(sinceHours(t, n) + 12, 24)

\* daysAgoOf taking the absolute value of the day count
daysAgoAbs(t, n) ==
    LET d == truncDiv(sinceHours(t, n), 24) IN IF d < 0 THEN -d ELSE d

\* daysAgo := int(time.Since(lastDone).Hours() / 24)
daysAgoOf(t, n) == truncDiv(sinceHours(t, n), 24)

\* baseOf with the values of the 6-9 and 10-14 cases exchanged
baseOfSwapped(n) ==
    IF n <= 2 THEN 1
    ELSE IF n <= 5 THEN 2
    ELSE IF n <= 9 THEN 4
    ELSE IF n <= 14 THEN 3
    ELSE 5

\* the first switch of mastery
baseOf(n) ==
    IF n <= 2 THEN 1
    ELSE IF n <= 5 THEN 2
    ELSE IF n <= 9 THEN 3
    ELSE IF n <= 14 THEN 4
    ELSE 5

\* the second switch of mastery
decayOf(daysAgo) ==
    IF daysAgo <= 3 THEN 0
    ELSE IF daysAgo <= 7 THEN 1
    ELSE IF daysAgo <= 14 THEN 2
    ELSE 3

\* clampLevel without the test for a negative level
clampLevelMissing(l) == l

\* level := base - decay; if level < 0 { level = 0 }
clampLevel(l) == IF l < 0 THEN 0 ELSE l

\* mastery with the guard timesDone < 0 in place of timesDone <= 0
masteryGuardLess(n, t, clk) ==
    IF n < 0 THEN 0
    ELSE clampLevel(baseOf(n) - decayOf(daysAgoOf(t, clk)))

\* func mastery(timesDone int, lastDone time.Time) Mastery, the clock at clk
mastery(n, t, clk) ==
    IF n <= 0 THEN 0
    ELSE clampLevel(baseOf(n) - decayOf(daysAgoOf(t, clk)))

\* whether that call gets as far as time.Since
evaluatesSince(n) == ~(n <= 0)

\* the table of Mastery.String
levels == << <<>>, <<"+">>, <<"+", "+">>, <<"+", "+", "+">>,
             <<"+", "+", "+", "+">>, <<"+", "+", "+", "+", "+">> >>

\* MasteryString clamping a level above the table to its last row
MasteryStringClamped(m) ==
    IF m < 0 THEN <<>>
    ELSE IF m >= Len(levels) THEN levels[Len(levels)] ELSE levels[m + 1]

\* func (m Mastery) String() string; Go's levels[m] is levels[m + 1] here
MasteryString(m) ==
    IF m < 0 \/ m >= Len(levels) THEN <<>> ELSE levels[m + 1]

(***************************************************************************)
(* The harness of the scoring function: the inputs are drawn at the start, *)
(* the function is called, and it is called again after time has passed or *)
(* after one more completion.                                              *)
(***************************************************************************)
\* a completion date the harness measures from: 2024-03-01, midnight UTC
RefTime == parse([y |-> 2024, m |-> 3, d |-> 1])

InitMastery ==
    /\ timesDone \in -1..MaxTimesDone
    /\ lastDone \in {ZeroTime, RefTime}
    /\ now = RefTime - MaxAheadHours
    /\ level = 0
    /\ prev = 0
    /\ moved = "uncalled"
    /\ sinceRead = FALSE
    /\ rendered = [level |-> 0, text |-> <<>>]
    /\ file = <<>> /\ clock = 0 /\ tz = 0 /\ cmd = [op |-> "none", name |-> ""]
    /\ err = "nil" /\ out = <<>> /\ saves = 0

\* kataMastery := mastery(int(timesDone), lastDone.t), printed with %v
Call(n, t, clk) ==
    /\ level' = mastery(n, t, clk)
    /\ sinceRead' = evaluatesSince(n)
    /\ rendered' = [level |-> level', text |-> MasteryString(level')]

\* the first call
CallFirst ==
    /\ moved = "uncalled"
    /\ Call(timesDone, lastDone, now)
    /\ prev' = 0 /\ moved' = "first"
    /\ UNCHANGED <<timesDone, lastDone, now>>

\* the same arguments, the clock read h hours later
CallLater ==
    /\ moved # "uncalled"
    /\ \E h \in {1, 24} :
          /\ now + h <= RefTime + MaxElapsedHours
          /\ now' = now + h
    /\ UNCHANGED <<timesDone, lastDone>>
    /\ Call(timesDone, lastDone, now')
    /\ prev' = level /\ moved' = "time"

\* one more completion counted, the same lastDone and the same clock
CallMore ==
    /\ moved # "uncalled"
    /\ timesDone < MaxTimesDone
    /\ timesDone' = timesDone + 1
    /\ UNCHANGED <<lastDone, now>>
    /\ Call(timesDone', lastDone, now)
    /\ prev' = level /\ moved' = "count"

\* Mastery.String on a value mastery did not return, before the first call
Render ==
    /\ moved = "uncalled"
    /\ \E m \in -MaxForeign..(5 + MaxForeign) :
          rendered' = [level |-> m, text |-> MasteryString(m)]
    /\ UNCHANGED <<timesDone, lastDone, now, level, prev, moved, sinceRead>>

NextMastery ==
    \/ CallFirst /\ UNCHANGED svars
    \/ CallLater /\ UNCHANGED svars
    \/ CallMore /\ UNCHANGED svars
    \/ Render /\ UNCHANGED svars

SpecMastery == InitMastery /\ [][NextMastery]_vars

(***************************************************************************)
(* main.go: the record store.  A kata is [Name, Done]; its URL is only     *)
(* printed and is left out.  The YAML file is modelled by the list it      *)
(* decodes to; a run of the program is one action, taken some hours after  *)
(* the run before it.                                                      *)
(***************************************************************************)
\* how many 12-hour steps the wall clock may advance over a behaviour
MaxSteps == 3

NoFile == [exists |-> FALSE, katas |-> <<>>]

\* //go:embed katas.yaml, as `katas -init` installs it
defaultKatas ==
    << [Name |-> "hello", Done |-> <<>>],
       [Name |-> "helloserver", Done |-> <<>>],
       [Name |-> "outyet", Done |-> <<>>] >>

\* the first run happens on 2024-02-28 at 11:00 UTC
StartClock == parse([y |-> 2024, m |-> 2, d |-> 28]) + 11

\* today := time.Now().Format("2006-01-02")
todayOf(clk, zone) == format(clk, zone)

\* the index of the first kata named `name`, 0 when there is none
RECURSIVE findKata(_, _, _)
findKata(ks, name, i) ==
    IF i > Len(ks) THEN 0
    ELSE IF ks[i].Name = name THEN i
    ELSE findKata(ks, name, i + 1)

\* markDone's test "already done today" reading the first entry, not the last
alreadyDoneFirst(done, today) == Len(done) > 0 /\ done[1] = today

\* len(kata.Done) > 0 && kata.Done[len(kata.Done)-1] == today
alreadyDone(done, today) == Len(done) > 0 /\ done[Len(done)] = today

\* markDone without the test "already done today"
markDoneUnchecked(ks, name, today) ==
    LET i == findKata(ks, name, 1)
    IN  IF i = 0 THEN [err |-> "not found", katas |-> ks, saved |-> FALSE]
        ELSE [err |-> "nil",
              katas |-> [ks EXCEPT ![i].Done = Append(@, today)],
              saved |-> TRUE]

\* func (k *katas) markDone(name string) error, after a load that succeeded:
\* the error, the list in memory and whether save() wrote it
markDone(ks, name, today) ==
    LET i == findKata(ks, name, 1)
    IN  IF i = 0 THEN [err |-> "not found", katas |-> ks, saved |-> FALSE]
        ELSE IF alreadyDone(ks[i].Done, today)
        THEN [err |-> "already done today", katas |-> ks, saved |-> FALSE]
        ELSE [err |-> "nil",
              katas |-> [ks EXCEPT ![i].Done = Append(@, today)],
              saved |-> TRUE]

\* the inner loop of print over kata.Done from entry i on: entries that do
\* not parse are skipped, `acc` moves to every entry After it
RECURSIVE scanDone(_, _, _)
scanDone(done, i, acc) ==
    IF i > Len(done) THEN acc
    ELSE IF ~parseOk(done[i]) THEN scanDone(done, i + 1, acc)
    ELSE IF parse(done[i]) > acc THEN scanDone(done, i + 1, parse(done[i]))
    ELSE scanDone(done, i + 1, acc)

\* the last done date as the first version of print read it: the last entry
lastDoneOfLastEntry(done) ==
    IF Len(done) > 0 /\ parseOk(done[Len(done)])
    THEN parse(done[Len(done)]) ELSE ZeroTime

\* var lastDone LastDone, after the inner loop
lastDoneOf(done) == scanDone(done, 1, ZeroTime)

\* var latestLastDone LastDone, after the katas up to the i-th
RECURSIVE latestOf(_, _)
latestOf(ks, i) ==
    IF i = 0 THEN ZeroTime ELSE scanDone(ks[i].Done, 1, latestOf(ks, i - 1))

\* func (ld LastDone) String() string: "never" or "%d days ago"
LastDoneString(t, clk) ==
    IF t = ZeroTime THEN [never |-> TRUE, days |-> 0]
    ELSE [never |-> FALSE, days |-> daysAgoOf(t, clk)]

\* one line of the table print writes
rowOf(kata, doneKata, clk) ==
    LET t == lastDoneOf(kata.Done)
        m == mastery(Len(kata.Done), t, clk)
    IN  [name      |-> kata.Name,
         marked    |-> (kata.Name = doneKata),
         timesDone |-> Len(kata.Done),
         lastDone  |-> t,
         lastText  |-> LastDoneString(t, clk),
         mastery   |-> m,
         symbol    |-> MasteryString(m)]

RECURSIVE sumOf(_, _, _)
sumOf(rows, i, field) ==
    IF i = 0 THEN 0 ELSE rows[i][field] + sumOf(rows, i - 1, field)

NoOutput == [printed |-> FALSE, rows |-> <<>>,
             total |-> [katas |-> 0, timesDone |-> 0, mastery |-> 0,
                        lastText |-> [never |-> TRUE, days |-> 0]]]

\* func (k *katas) print(doneKata string) error, on the file `f`
print(f, doneKata, clk) ==
    IF ~f.exists \/ Len(f.katas) = 0 THEN NoOutput
    ELSE LET rows == [i \in 1..Len(f.katas) |-> rowOf(f.katas[i], doneKata, clk)]
         IN  [printed |-> TRUE,
              rows    |-> rows,
              total   |-> [katas     |-> Len(f.katas),
                           timesDone |-> sumOf(rows, Len(rows), "timesDone"),
                           mastery   |-> sumOf(rows, Len(rows), "mastery")
                                           \div Len(f.katas),
                           lastText  |-> LastDoneString(
                                           latestOf(f.katas, Len(f.katas)), clk)]]

\* the texts a hand-edited file holds in the model
OldDate    == [y |-> 2024, m |-> 2, d |-> 20]
RecentDate == [y |-> 2024, m |-> 2, d |-> 27]
FutureDate == [y |-> 2024, m |-> 3, d |-> 5]
BadDate    == [y |-> 2024, m |-> 2, d |-> 30]
YearZero   == [y |-> 0, m |-> 12, d |-> 31]
Entries    == {OldDate, RecentDate, FutureDate, BadDate, YearZero}

Records ==
    {<<>>} \cup {<<a>> : a \in Entries}
           \cup {<<a, b>> : a \in Entries, b \in Entries}

Init ==
    /\ file \in {NoFile} \cup
          { [exists |-> TRUE,
             katas  |-> << [Name |-> "hello", Done |-> r],
                           [Name |-> n, Done |-> s] >>] :
              r \in Records, n \in {"hello", "outyet"}, s \in {<<>>} }
    /\ clock = StartClock
    /\ tz \in {-12, 0, 14}
    /\ cmd = [op |-> "none", name |-> ""]
    /\ err = "nil"
    /\ out = NoOutput
    /\ saves = 0
    /\ timesDone = 0 /\ lastDone = ZeroTime /\ now = 0 /\ level = 0 /\ prev = 0
    /\ moved = "uncalled" /\ sinceRead = FALSE
    /\ rendered = [level |-> 0, text |-> <<>>]

\* the wall clock between two runs: the same hour, or some 12-hour steps on
Elapse ==
    \E h \in {0, 12} :
        /\ clock + h <= StartClock + 12 * MaxSteps
        /\ clock' = clock + h

\* katas -init: initConfig
RunInit ==
    /\ Elapse
    /\ cmd' = [op |-> "init", name |-> ""]
    /\ IF file.exists
       THEN err' = "already exists" /\ file' = file
       ELSE err' = "nil" /\ file' = [exists |-> TRUE, katas |-> defaultKatas]
    /\ out' = NoOutput
    /\ UNCHANGED <<tz, saves>>

\* katas -done name: markDone, log.Fatal on its error, else print(name)
RunDone ==
    /\ Elapse
    /\ \E name \in {"hello", "outyet", "gone"} :
          /\ cmd' = [op |-> "done", name |-> name]
          /\ IF ~file.exists
             THEN err' = "load" /\ file' = file /\ saves' = saves
                  /\ out' = NoOutput
             ELSE LET r == markDone(file.katas, name, todayOf(clock', tz))
                  IN  /\ err' = r.err
                      /\ file' = IF r.saved
                                 THEN [exists |-> TRUE, katas |-> r.katas]
                                 ELSE file
                      /\ saves' = IF r.saved THEN saves + 1 ELSE saves
                      /\ out' = IF r.err = "nil"
                                THEN print(file', name, clock')
                                ELSE NoOutput
    /\ UNCHANGED tz

\* katas: print(""), whose error main drops
RunPrint ==
    /\ Elapse
    /\ cmd' = [op |-> "print", name |-> ""]
    /\ err' = "nil"
    /\ out' = print(file, "", clock')
    /\ UNCHANGED <<file, tz, saves>>

Next ==
    \/ RunInit /\ UNCHANGED mvars
    \/ RunDone /\ UNCHANGED mvars
    \/ RunPrint /\ UNCHANGED mvars

Spec == Init /\ [][Next]_vars

(***************************************************************************)
(* The scoring function's contract, as the specification states it.        *)
(***************************************************************************)
Called == moved # "uncalled"

\* the base level table of the specification, section 4.1
TableBase(n) ==
    CASE n \in 1..2 -> 1
      [] n \in 3..5 -> 2
      [] n \in 6..9 -> 3
      [] n \in 10..14 -> 4
      [] OTHER -> 5

\* the decay table of the specification; a negative day count falls into the
\* first bracket
TableDecay(d) ==
    CASE d <= 3 -> 0
      [] d \in 4..7 -> 1
      [] d \in 8..14 -> 2
      [] OTHER -> 3

\* whole days between two instants, the hours elapsed / 24 cut toward zero
WholeDays(from, to) ==
    IF to >= from THEN (to - from) \div 24 ELSE -((from - to) \div 24)

Max0(a) == IF a > 0 THEN a ELSE 0

\* C1: for timesDone >= 1, mastery returns max(0, base - decay) with base and
\* decay read off the two tables and daysAgo the truncated whole days elapsed
\* between lastDoneAt and now.
C1_TableResult ==
    (Called /\ timesDone >= 1) =>
        level = Max0(TableBase(timesDone) - TableDecay(WholeDays(lastDone, now)))

\* 3 days 23 hours after the last completion the decay is still 0
C1_Witness ==
    Called /\ timesDone = 10 /\ now - lastDone = 95 /\ level = 4

\* C2: mastery returns 0 whenever timesDone <= 0, whatever lastDoneAt and now
\* are, and time.Since is not evaluated.
C2_ZeroCount ==
    (Called /\ timesDone <= 0) => (level = 0 /\ ~sinceRead)

\* a count of 0 with a completion date of the same day
C2_Witness ==
    Called /\ timesDone = 0 /\ lastDone = RefTime /\ now - lastDone \in 0..23
    /\ level = 0

\* C3: for every timesDone >= 0, every valid or absent lastDoneAt and every
\* now, mastery returns an integer level with 0 <= level <= 5.
C3_Range ==
    (Called /\ timesDone >= 0) => level \in 0..5

\* an absent lastDoneAt: base 1, decay 3, clamped to 0
C3_Witness ==
    Called /\ timesDone = 1 /\ lastDone = ZeroTime /\ level = 0

\* C4: for fixed timesDone > 0 and lastDoneAt, mastery read at a later now is
\* not above mastery read at the earlier now.
C4_MonotoneTime ==
    (moved = "time" /\ timesDone > 0) => level <= prev

\* the level drops when the clock crosses a decay bracket
C4_Witness ==
    moved = "time" /\ timesDone > 0 /\ level < prev

\* C5: for fixed lastDoneAt and now, mastery does not decrease when the count
\* grows, from any count >= 0.
C5_MonotoneCount ==
    (moved = "count" /\ timesDone >= 1) => level >= prev

\* the level rises when the count crosses a base bracket
C5_Witness ==
    moved = "count" /\ timesDone >= 1 /\ level > prev

\* the string of k '+' characters
Plus(k) == [i \in 1..k |-> "+"]

\* C6: Mastery.String returns `level` '+' characters for a level in 0..5 and
\* the empty string for any other level, so the symbol of a value mastery
\* returned is as long as the value.
C6_Symbol ==
    /\ rendered.text =
         (IF rendered.level \in 0..5 THEN Plus(rendered.level) ELSE <<>>)
    /\ Called => (rendered.level = level /\ Len(rendered.text) = level)

\* a level above 5 renders as the empty string
C6_Witness ==
    rendered.level > 5 /\ rendered.text = <<>>

\* C7: with lastDoneAt later than now and timesDone > 0 the signed day count
\* is <= 0, the decay is 0 and mastery returns the base level.
C7_FutureLastDone ==
    (Called /\ timesDone > 0 /\ lastDone > now) =>
        /\ daysAgoOf(lastDone, now) <= 0
        /\ level = TableBase(timesDone)

\* a completion date four days ahead of the clock
C7_Witness ==
    Called /\ timesDone = 6 /\ lastDone - now = 96 /\ level = 3

(***************************************************************************)
(* The record store's claims.                                              *)
(***************************************************************************)
\* the instants of the entries of a record that parse as dates
DatesOf(done) == {parse(done[i]) : i \in {j \in 1..Len(done) : parseOk(done[j])}}

MaxOf(S) == CHOOSE x \in S : \A z \in S : z <= x

\* what the claim says print passes to mastery for a record: its length, and
\* its most recent date, the zero time only for the empty record
PassesMostRecent(row, done) ==
    /\ row.timesDone = Len(done)
    /\ (done = <<>>) => row.lastDone = ZeroTime
    /\ (done # <<>>) =>
          /\ row.lastDone \in DatesOf(done)
          /\ \A t \in DatesOf(done) : t <= row.lastDone

\* C8 as stated: for every kata printed, mastery is given the number of
\* entries of the record and its most recent date, absent only when the
\* record is empty, whatever the record holds.
C8_AsStated ==
    out.printed =>
        \A i \in 1..Len(out.rows) :
            PassesMostRecent(out.rows[i], file.katas[i].Done)

\* the dates of a record that lie after the zero time, 0001-01-01
LaterDatesOf(done) == {t \in DatesOf(done) : t > ZeroTime}

\* C8, amended: for every kata printed, mastery is given the number of
\* entries of the record, and the latest of its entries that parse as dates
\* after 0001-01-01, or the zero time when no entry does; the printed level is
\* mastery of those two.
C8_LatestParsedDate ==
    out.printed =>
        /\ Len(out.rows) = Len(file.katas)
        /\ \A i \in 1..Len(out.rows) :
              LET done == file.katas[i].Done
                  row  == out.rows[i]
              IN  /\ row.timesDone = Len(done)
                  /\ row.lastDone =
                        (IF LaterDatesOf(done) = {} THEN ZeroTime
                         ELSE MaxOf(LaterDatesOf(done)))
                  /\ row.mastery =
                        (IF row.timesDone = 0 THEN 0
                         ELSE Max0(TableBase(row.timesDone)
                                   - TableDecay(WholeDays(row.lastDone, clock))))

\* a printed record whose last entry does not parse and whose first is its
\* latest date
C8_Witness ==
    /\ out.printed
    /\ \E i \in 1..Len(out.rows) :
          LET done == file.katas[i].Done
          IN  /\ Len(done) >= 3
              /\ ~parseOk(done[2])
              /\ parseOk(done[1]) /\ parseOk(done[3])
              /\ parse(done[1]) > parse(done[3])
              /\ out.rows[i].lastDone = parse(done[1])

\* a record is chronological: every entry is a date and the dates increase
Chrono(done) ==
    /\ \A i \in 1..Len(done) : parseOk(done[i])
    /\ \A i \in 1..Len(done) : \A j \in 1..Len(done) :
          i < j => parse(done[i]) < parse(done[j])

\* no entry of the record is a date after the local date of the clock
NotAfter(done, clk) ==
    \A i \in 1..Len(done) :
        parseOk(done[i]) => parse(done[i]) <= parse(todayOf(clk, tz))

\* what one run may do to the list: the katas and their names stay, at most
\* one record changes, and it changes by today's date appended
AppendOnly ==
    /\ Len(file'.katas) = Len(file.katas)
    /\ \A i \in 1..Len(file.katas) :
          /\ file'.katas[i].Name = file.katas[i].Name
          /\ \/ file'.katas[i].Done = file.katas[i].Done
             \/ /\ file'.katas[i].Done =
                      Append(file.katas[i].Done, todayOf(clock', tz))
                /\ cmd'.op = "done" /\ err' = "nil"
                /\ \A j \in 1..Len(file.katas) :
                      j # i => file'.katas[j].Done = file.katas[j].Done

\* C9 as stated: from chronological records, with the date of the clock
\* staying or advancing, every run leaves every record chronological and
\* changes it only by appending today's date.
C9_AsStated ==
    [][(file.exists /\ (\A i \in 1..Len(file.katas) : Chrono(file.katas[i].Done)))
         => /\ AppendOnly
            /\ \A i \in 1..Len(file'.katas) : Chrono(file'.katas[i].Done)]_vars

\* C9, amended: from records that are chronological and hold no date after
\* today's, with the date of the clock staying or advancing, every run leaves
\* every record so, and changes the list only by appending today's date to
\* one record.
C9_ChronoNotAfterToday ==
    [][(file.exists /\ (\A i \in 1..Len(file.katas) :
                            /\ Chrono(file.katas[i].Done)
                            /\ NotAfter(file.katas[i].Done, clock)))
         => /\ AppendOnly
            /\ \A i \in 1..Len(file'.katas) :
                  /\ Chrono(file'.katas[i].Done)
                  /\ NotAfter(file'.katas[i].Done, clock')]_vars

\* the default katas, one of them marked done on two different days
C9_Witness ==
    /\ file.exists /\ Len(file.katas) = 3
    /\ cmd.op = "done" /\ err = "nil"
    /\ \E i \in 1..3 :
          /\ Len(file.katas[i].Done) = 2
          /\ file.katas[i].Done[2] = todayOf(clock, tz)
          /\ Chrono(file.katas[i].Done)

\* markDone(name) must be rejected on the list `ks` on the date `today`
MustReject(ks, name, today) ==
    LET i == findKata(ks, name, 1)
    IN  \/ \A j \in 1..Len(ks) : ks[j].Name # name
        \/ (i > 0 /\ Len(ks[i].Done) > 0 /\ ks[i].Done[Len(ks[i].Done)] = today)

\* C10: markDone(name) returns an error, does not call save and leaves the
\* file as it is when no kata is named `name` and when the last entry of that
\* kata's record equals today's date; a second markDone of a kata on the day
\* of a successful first one is rejected.
C10_Rejections ==
    [][(cmd'.op = "done" /\ file.exists) =>
         /\ MustReject(file.katas, cmd'.name, todayOf(clock', tz)) =>
               /\ err' \in {"not found", "already done today"}
               /\ (err' = "not found") =
                     (\A j \in 1..Len(file.katas) : file.katas[j].Name # cmd'.name)
               /\ file' = file
               /\ saves' = saves
               /\ ~out'.printed
         /\ (/\ cmd.op = "done" /\ err = "nil" /\ cmd'.name = cmd.name
             /\ todayOf(clock', tz) = todayOf(clock, tz)) =>
               (err' = "already done today" /\ file' = file)]_vars

\* a kata of the default list, marked done once today, refused the second time
C10_Witness ==
    /\ cmd.op = "done" /\ err = "already done today"
    /\ saves = 1
    /\ file.exists /\ Len(file.katas) = 3
    /\ \E i \in 1..3 :
          /\ file.katas[i].Name = cmd.name
          /\ file.katas[i].Done = <<todayOf(clock, tz)>>

====
